---- MODULE Spec2Model ----
(***************************************************************************)
(* The proposal-gathering conversation of ChatPage                          *)
(* (src/app/(protected)/chat/[bookId]/page.tsx, src/lib/proposalFlow.ts,    *)
(* and the /api/chat route): one proposal thread, its message log, its     *)
(* proposal_state row, the sessionStorage mirror and the React state of    *)
(* the page.  Every await of a handler is one step: the awaited call's     *)
(* effect together with the synchronous code that follows it up to the     *)
(* next await.                                                             *)
(***************************************************************************)
EXTENDS Integers, Sequences, FiniteSets, TLC

\* ------------------------------------------------------------------ bounds
MaxTurns   == 2   \* accepted submits in one behaviour
MaxResets  == 1   \* clicks on the refresh button
MaxReloads == 1   \* page reloads
MaxFaults  == 1   \* durable writes / reads that fail
MaxFollowups == 3 \* entries of a follow-up list handed to buildQuestionMessage

\* ------------------------------------------------------- program constants
MAX_QA_ROUNDS == 12

\* The program's Japanese string literals are written here in ASCII.
Null == "<null>"                       \* JS null / undefined
QMark == "[shitsumon]"                 \* the question prefix of buildQuestionMessage
Bullet == "*"                          \* the follow-up prefix of buildQuestionMessage
FALLBACK_QUESTION == "fallback: what would make the target reader more concrete?"
QUESTION_PLACEHOLDER == "(shitsumon)"  \* pendingQText ?? '(...)'
DRAFT_FAILED_TEXT == "(draft generation failed)"
WELCOME_TEXT == "welcome: let us write the proposal of your book"

\* ------------------------------------------------------------ input alphabets
Inputs == {"in1"}                      \* trimmed, non-empty user inputs
BlankInputs == {"", " "}               \* empty and whitespace-only inputs
DraftTexts == {"draft"}

Min(a, b) == IF a < b THEN a ELSE b

\* String.prototype.trim on the inputs above
Trim(s) == IF s \in BlankInputs THEN "" ELSE s

\* ------------------------------------------------------------ proposalFlow.ts
\* Keys of the AnswerMap: the reserved seed key and `q${n}`.
SEED_ANSWER_KEY == [name |-> "__seed_pitch", idx |-> 0]
QKey(n) == [name |-> "q", idx |-> n]

\* Values of the AnswerMap are strings: the raw seed text, or
\* JSON.stringify({question, answer}).
RawValue(s) == [shape |-> "raw", question |-> "", text |-> s]
QAValue(q, a) == [shape |-> "qa", question |-> q, text |-> a]

EmptyAnswers == [k \in {} |-> RawValue("")]

\* { ...answers, [key]: value }
WithEntry(answers, key, value) ==
    [k \in (DOMAIN answers) \cup {key} |-> IF k = key THEN value ELSE answers[k]]

\* proposalAnswers[SEED_ANSWER_KEY] is truthy
HasSeed(answers) ==
    /\ SEED_ANSWER_KEY \in DOMAIN answers
    /\ answers[SEED_ANSWER_KEY].text # ""

\* A message content is its sequence of lines; a line is its leading mark
\* (the question prefix, the bullet or none) and the text after it.
Line(mark, text) == [mark |-> mark, text |-> text]
PlainContent(text) == << Line("", text) >>

\* buildQuestionMessage(main, followups)
BuildQuestionMessageAll(main, followups) ==
    << Line(QMark, main) >>
        \o [i \in 1..Len(followups) |-> Line(Bullet, followups[i])]
BuildQuestionMessage(main, followups) ==
    << Line(QMark, main) >>
        \o [i \in 1..Min(2, Len(followups)) |-> Line(Bullet, followups[i])]

\* content.startsWith(<question prefix>)
StartsWithQuestion(content) == Len(content) > 0 /\ content[1].mark = QMark

Msg(role, content) == [role |-> role, content |-> content]

\* [...messages].filter(m => m.role === 'assistant').slice(-1)[0]
AssistantIdx(msgs) == {i \in 1..Len(msgs) : msgs[i].role = "assistant"}
HasAssistant(msgs) == AssistantIdx(msgs) # {}
LastAssistant(msgs) ==
    msgs[CHOOSE i \in AssistantIdx(msgs) : \A j \in AssistantIdx(msgs) : j <= i]

\* expectingAnswer of handleSendMessage
ExpectingAnswer(msgs) ==
    HasAssistant(msgs) /\ StartsWithQuestion(LastAssistant(msgs).content)

\* handleSendMessage, branch 1: { ...proposalAnswers, [SEED_ANSWER_KEY]: content }
SeedAsFirstAnswer(answers, content) == WithEntry(answers, QKey(1), RawValue(content))
SeedAnswers(answers, content) == WithEntry(answers, SEED_ANSWER_KEY, RawValue(content))

\* handleSendMessage, branch 2: qaKey, qaValue and nextAnswers
AnswerValue(pending, content) ==
    QAValue(IF pending = Null THEN QUESTION_PLACEHOLDER ELSE pending, content)
AnswerAnswersSameKey(answers, count, pending, content) ==
    WithEntry(answers, QKey(count), AnswerValue(pending, content))
AnswerAnswers(answers, count, pending, content) ==
    WithEntry(answers, QKey(count + 1), AnswerValue(pending, content))

\* the first branch of handleSendMessage is taken
IsSeedTurn(expecting, answers) == ~expecting /\ ~HasSeed(answers)

\* ------------------------------------------------- /api/chat, seen by the page
\* A planning reply text is a body, bare or inside a code fence ("json": a
\* fence tagged json, "bare": a fence with no tag).  A body is a JSON value
\* with the fields the planner reads, or text that JSON.parse rejects (raw "":
\* the empty string).
Obj(decision, question, followups) ==
    [json |-> TRUE, raw |-> "{}", decision |-> decision, question |-> question,
     followups |-> followups]
NotJson(raw) ==
    [json |-> FALSE, raw |-> raw, decision |-> "", question |-> "", followups |-> << >>]
ReplyText(fence, body) == [fence |-> fence, body |-> body]
EmptyText == ReplyText("none", NotJson(""))

AskFull == Obj("ask", "Q1", << "f1", "", "f2", "f3" >>)
AskNoQuestion == Obj("ask", "", << >>)
NoDecision == Obj("", "Q1", << "f1" >>)
SummaryObj == Obj("summary", "", << >>)

PlanTexts ==
    {ReplyText("none", b) : b \in {AskFull, AskNoQuestion, NoDecision, SummaryObj,
                                    NotJson("garbage")}}
      \cup {ReplyText("json", AskFull), ReplyText("bare", AskFull), EmptyText}

\* What `await fetch` and `await res.json()` give the page: the fetch rejects
\* ("netfail"), the route answers 500 with {error} ("error"), or 200 with
\* {content} ("ok").
PlanReplies ==
    {[kind |-> "netfail", text |-> EmptyText], [kind |-> "error", text |-> EmptyText]}
      \cup {[kind |-> "ok", text |-> t] : t \in PlanTexts}
SummaryReplies ==
    {[kind |-> "netfail", text |-> ""], [kind |-> "error", text |-> ""]}
      \cup {[kind |-> "ok", text |-> t] : t \in DraftTexts \cup {""}}

\* (data?.content as string) || ''
RawOf(reply) == IF reply.kind = "ok" THEN reply.text ELSE EmptyText

\* the jsonStr of askPlannerNext: the inside of a ```json fence, else the text
JsonStr(raw) == IF raw.fence = "json" THEN ReplyText("none", raw.body) ELSE raw

\* JSON.parse(jsonStr) returns
Parses(jsonStr) == jsonStr.fence = "none" /\ jsonStr.body.json

\* obj?.decision of the parsed reply (Null when JSON.parse threw)
ObjDecision(jsonStr) == IF Parses(jsonStr) THEN jsonStr.body.decision ELSE Null

\* Entries of a followups array: a string is written as itself, a JSON
\* value that is not a string between angle brackets.
NonStrings == {"<7>", "<0>", "<true>", "<false>", "<{}>", Null}
\* !Boolean(x)
Falsy(x) == x \in {"", "<0>", "<false>", Null}
\* String(x)
StringOf(x) ==
    CASE x = "<7>" -> "7"
      [] x = "<0>" -> "0"
      [] x = "<true>" -> "true"
      [] x = "<false>" -> "false"
      [] x = "<{}>" -> "[object Object]"
      [] x = Null -> "null"
      [] OTHER -> x

\* obj.followups.filter(Boolean).map(String).slice(0,2)
FilterFollowups(f) ==
    LET kept == SelectSeq(f, LAMBDA x : ~Falsy(x))
        strs == [i \in 1..Len(kept) |-> StringOf(kept[i])]
    IN  SubSeq(strs, 1, Min(2, Len(strs)))

Decision(decision, question, followups) ==
    [decision |-> decision, question |-> question, followups |-> followups]

\* the try/catch of askPlannerNext
ParseDecisionNoFallback(jsonStr) ==
    IF ~Parses(jsonStr)
    THEN Decision("ask", "", << >>)
    ELSE IF jsonStr.body.decision = "summary"
    THEN Decision("summary", "", << >>)
    ELSE IF jsonStr.body.decision = "ask"
    THEN Decision("ask", jsonStr.body.question, FilterFollowups(jsonStr.body.followups))
    ELSE Decision("ask", "", << >>)
ParseDecision(jsonStr) ==
    IF ~Parses(jsonStr)
    THEN Decision("ask", FALLBACK_QUESTION, << >>)
    ELSE IF jsonStr.body.decision = "summary"
    THEN Decision("summary", "", << >>)
    ELSE IF jsonStr.body.decision = "ask"
    THEN Decision("ask", jsonStr.body.question, FilterFollowups(jsonStr.body.followups))
    ELSE Decision("ask", "", << >>)

\* decision === 'summary' || count >= MAX_QA_ROUNDS
ResolvesToSummaryOffByOne(decision, count) ==
    decision = "summary" \/ count > MAX_QA_ROUNDS
ResolvesToSummary(decision, count) == decision = "summary" \/ count >= MAX_QA_ROUNDS

\* (data?.content as string) || <failure text>, of askProposalSummary
DraftContent(reply) ==
    IF reply.kind = "ok" /\ reply.text # "" THEN reply.text ELSE DRAFT_FAILED_TEXT

\* question || null
PendingOfNone(question) == Null
PendingOf(question) == IF question = "" THEN Null ELSE question

\* --------------------------------------------------------------- the stores
\* The proposal_state row of the thread, and its sessionStorage mirror
\* (stepKey and answerKey are written and removed together).
NoRow == [present |-> FALSE, step_idx |-> 0, answers |-> EmptyAnswers]
Row(count, answers) == [present |-> TRUE, step_idx |-> count, answers |-> answers]

\* ------------------------------------------------------------------- state
VARIABLES
    messages,         \* useState messages: the log as last fetched
    chatLog,          \* chat_messages of the thread, ordered by created_at
    askedCount,       \* useState askedCount (ProgressCounter)
    proposalAnswers,  \* useState proposalAnswers (AnswerMap)
    pendingQText,     \* useState pendingQText (PendingQuestion)
    isSending,        \* useState isSending
    proposalState,    \* the durable proposal_state row
    sessionCache,     \* the sessionStorage mirror
    turn,             \* the running (or last) call of handleSendMessage
    alertShown,       \* the last turn ended in alert(...)
    activeThread,     \* the thread of activeSection: the page's `thread`
    call,             \* the last call of a function of proposalFlow.ts
    turns, resets, reloads, faults   \* counters of the bounds

vars == << messages, chatLog, askedCount, proposalAnswers, pendingQText, isSending,
           proposalState, sessionCache, turn, alertShown, activeThread, call,
           turns, resets, reloads, faults >>

memory == << messages, askedCount, proposalAnswers, pendingQText >>
stores == << chatLog, proposalState, sessionCache >>
counters == << turns, resets, reloads, faults >>
others == << activeThread, call >>

\* The locals of one call of handleSendMessage and of the askPlannerNext and
\* askProposalSummary calls inside it.  count, answers and pending are the
\* values of the render the handler closed over; planCount is the count
\* handed to askPlannerNext.
NoTurn ==
    [pc |-> "idle", content |-> "", expecting |-> FALSE, branch |-> "none",
     count |-> 0, answers |-> EmptyAnswers, pending |-> Null,
     nextCount |-> 0, nextAnswers |-> EmptyAnswers, planCount |-> 0,
     saved |-> "no", userLogged |-> FALSE, logAtStart |-> 0,
     decision |-> "none", question |-> "", followups |-> << >>, draft |-> "",
     planReply |-> "none", parsed |-> "none", objDecision |-> Null,
     sumReply |-> "none",
     reqs |-> << >>, posted |-> << >>, result |-> "none", disturbed |-> FALSE]

InFlight == turn.pc # "idle"

\* No function of proposalFlow.ts has been called on its own.
NoCall == [fn |-> "none", args |-> << >>, result |-> << >>]

\* ------------------------------------------------------------------- Init
WelcomeMsg == Msg("assistant", PlainContent(WELCOME_TEXT))
UserMsg(content) == Msg("user", PlainContent(content))
QuestionMsg(question, followups) ==
    Msg("assistant", BuildQuestionMessage(question, followups))

\* The thread as n completed question/answer rounds leave it: the seed turn
\* and n answer turns, each answered by the planner with the question Q1.
RECURSIVE LogAfter(_), AnswersAfter(_)
LogAfter(n) ==
    IF n = 0
    THEN << WelcomeMsg, UserMsg("in1"), QuestionMsg("Q1", << >>) >>
    ELSE LogAfter(n - 1) \o << UserMsg("in1"), QuestionMsg("Q1", << >>) >>
AnswersAfter(n) ==
    IF n = 0
    THEN SeedAnswers(EmptyAnswers, "in1")
    ELSE AnswerAnswers(AnswersAfter(n - 1), n - 1, "Q1", "in1")

\* The page opens on a new thread (after the welcome) or stands at a thread
\* with StartRounds rounds done.
StartRounds == {MAX_QA_ROUNDS - 1}

InitFresh ==
    /\ chatLog = << WelcomeMsg >>
    /\ messages = chatLog
    /\ askedCount = 0
    /\ proposalAnswers = EmptyAnswers
    /\ pendingQText = Null
    /\ proposalState = NoRow
    /\ sessionCache = NoRow

InitAfter(n) ==
    /\ chatLog = LogAfter(n)
    /\ messages = chatLog
    /\ askedCount = n
    /\ proposalAnswers = AnswersAfter(n)
    /\ pendingQText = "Q1"
    /\ proposalState = Row(n, AnswersAfter(n))
    /\ sessionCache = Row(n, AnswersAfter(n))

Init ==
    /\ InitFresh \/ \E n \in StartRounds : InitAfter(n)
    /\ isSending = FALSE
    /\ turn = NoTurn
    /\ alertShown = FALSE
    /\ activeThread = "A"
    /\ call = NoCall
    /\ turns = 0 /\ resets = 0 /\ reloads = 0 /\ faults = 0

\* ------------------------------------------------------ handleSendMessage
\* the guard of handleSendMessage (thread is set, dependencyReady holds)
AcceptsBlank(content, sending) == ~sending
AcceptsWhileSending(content, sending) == content # ""
Accepts(content, sending) == content # "" /\ ~sending

NewTurn(content) ==
    [NoTurn EXCEPT !.pc = "insert_user", !.content = content,
                   !.expecting = ExpectingAnswer(messages),
                   !.count = askedCount, !.answers = proposalAnswers,
                   !.pending = pendingQText, !.logAtStart = Len(chatLog)]

\* A submit (button or Enter) with the input box holding inp.  Inputs are
\* drawn while the proposal section (thread A) is the active one.
SubmitWithin(inp, maxTurns) ==
    LET content == Trim(inp) IN
    IF Accepts(content, isSending)
    THEN /\ activeThread = "A"
         /\ turns < maxTurns
         /\ isSending' = TRUE
         /\ turn' = NewTurn(content)
         /\ alertShown' = FALSE
         /\ turns' = turns + 1
         /\ UNCHANGED << memory, stores, others, resets, reloads, faults >>
    ELSE UNCHANGED vars

Submit(inp) == SubmitWithin(inp, MaxTurns)

\* The same handler with the call noted: the input it was given, the
\* isSending it read, and whether it went past its guard.
HandleSend(inp) ==
    LET content == Trim(inp) IN
    /\ call' = [fn |-> "handleSendMessage",
                args |-> [input |-> inp, isSending |-> isSending],
                result |-> IF Accepts(content, isSending) THEN "accepted" ELSE "rejected"]
    /\ IF Accepts(content, isSending)
       THEN /\ activeThread = "A"
            /\ turns < MaxTurns
            /\ isSending' = TRUE
            /\ turn' = NewTurn(content)
            /\ alertShown' = FALSE
            /\ turns' = turns + 1
            /\ UNCHANGED << memory, stores, activeThread, resets, reloads, faults >>
       ELSE UNCHANGED << memory, stores, isSending, turn, alertShown, activeThread,
                         counters >>

\* await supabase.from('chat_messages').insert({role: 'user', ...})
LogWithoutUser(log, content) == log
LogWithUser(log, content) == Append(log, UserMsg(content))

InsertUser ==
    /\ turn.pc = "insert_user"
    /\ chatLog' = LogWithUser(chatLog, turn.content)
    /\ turn' = [turn EXCEPT !.pc = "refresh_user", !.userLogged = TRUE]
    /\ UNCHANGED << memory, isSending, proposalState, sessionCache,
                    alertShown, others, counters >>

\* await refreshMessages(threadId), then the branch of the proposal section
\* up to the call of saveProposalState
RefreshUser ==
    /\ turn.pc = "refresh_user"
    /\ messages' = chatLog
    /\ IF IsSeedTurn(turn.expecting, turn.answers)
       THEN /\ turn' = [turn EXCEPT !.pc = "save", !.branch = "seed",
                                     !.nextCount = turn.count,
                                     !.nextAnswers = SeedAnswers(turn.answers, turn.content)]
            /\ proposalAnswers' = SeedAnswers(turn.answers, turn.content)
            /\ UNCHANGED askedCount
       ELSE /\ turn' = [turn EXCEPT !.pc = "save", !.branch = "answer",
                                     !.nextCount = turn.count + 1,
                                     !.nextAnswers = AnswerAnswers(turn.answers, turn.count,
                                                                   turn.pending, turn.content)]
            /\ proposalAnswers' = AnswerAnswers(turn.answers, turn.count,
                                                turn.pending, turn.content)
            /\ askedCount' = turn.count + 1
    /\ UNCHANGED << pendingQText, isSending, stores, alertShown, others, counters >>

\* await saveProposalState(threadId, count, answers): the upsert (which may
\* return an error that the page ignores), then the sessionStorage mirror;
\* then askPlannerNext up to its fetch
\* the row that handleSendMessage hands to saveProposalState
StoredRowStale(t) == Row(t.count, t.answers)
StoredRow(t) == Row(t.nextCount, t.nextAnswers)

SaveState(ok) ==
    /\ turn.pc = "save"
    /\ IF ok
       THEN /\ proposalState' = StoredRow(turn)
            /\ UNCHANGED faults
       ELSE /\ faults < MaxFaults
            /\ faults' = faults + 1
            /\ UNCHANGED proposalState
    /\ sessionCache' = StoredRow(turn)
    /\ turn' = [turn EXCEPT !.pc = "plan", !.saved = IF ok THEN "ok" ELSE "failed",
                             !.planCount = turn.nextCount,
                             !.reqs = Append(turn.reqs, "plan")]
    /\ UNCHANGED << memory, chatLog, isSending, alertShown, others,
                    turns, resets, reloads >>

\* The same call with a failed upsert noted: what was handed to
\* saveProposalState, in which turn and branch, whether a reset or reload had
\* run since the turn began, and the resets and reloads there had been.
SaveStateNoted(ok) ==
    /\ turn.pc = "save"
    /\ IF ok
       THEN /\ proposalState' = StoredRow(turn)
            /\ UNCHANGED << faults, call >>
       ELSE /\ faults < MaxFaults
            /\ faults' = faults + 1
            /\ call' = [fn |-> "saveProposalState",
                        args |-> [count |-> turn.nextCount, answers |-> turn.nextAnswers,
                                  branch |-> turn.branch, turnNo |-> turns,
                                  disturbed |-> turn.disturbed,
                                  resets |-> resets, reloads |-> reloads],
                        result |-> "error"]
            /\ UNCHANGED proposalState
    /\ sessionCache' = StoredRow(turn)
    /\ turn' = [turn EXCEPT !.pc = "plan", !.saved = IF ok THEN "ok" ELSE "failed",
                             !.planCount = turn.nextCount,
                             !.reqs = Append(turn.reqs, "plan")]
    /\ UNCHANGED << memory, chatLog, isSending, alertShown, activeThread,
                    turns, resets, reloads >>

\* catch (e) { alert(...) } finally { setIsSending(false) }
Failed(t) == [t EXCEPT !.pc = "idle", !.result = "failed"]

\* The generation requests of the turn once the decision is resolved: the
\* fetch of askProposalSummary is issued when it resolved to summary.
RequestsAfterPlanBoth(reqs, summary) == Append(reqs, "summary")
RequestsAfterPlan(reqs, summary) == IF summary THEN Append(reqs, "summary") ELSE reqs

\* The planning fetch and res.json() settle; the reply is parsed and the
\* decision resolved, up to the next await (the summary fetch, or getUser and
\* the insert of the question).
PlanReply(reply) ==
    /\ turn.pc = "plan"
    /\ IF reply.kind = "netfail"
       THEN /\ turn' = [Failed(turn) EXCEPT !.planReply = reply.kind]
            /\ alertShown' = TRUE
            /\ isSending' = FALSE
       ELSE LET d == ParseDecision(JsonStr(RawOf(reply))) IN
            /\ turn' = [turn EXCEPT
                            !.planReply = reply.kind,
                            !.parsed = IF Parses(JsonStr(RawOf(reply))) THEN "yes" ELSE "no",
                            !.objDecision = ObjDecision(JsonStr(RawOf(reply))),
                            !.decision = d.decision,
                            !.question = d.question,
                            !.followups = d.followups,
                            !.pc = IF ResolvesToSummary(d.decision, turn.planCount)
                                   THEN "summary" ELSE "ask_insert",
                            !.reqs = RequestsAfterPlan(turn.reqs,
                                         ResolvesToSummary(d.decision, turn.planCount))]
            /\ UNCHANGED << alertShown, isSending >>
    /\ UNCHANGED << memory, stores, others, counters >>

\* the insert of the question message
AskInsert ==
    /\ turn.pc = "ask_insert"
    /\ chatLog' = Append(chatLog, QuestionMsg(turn.question, turn.followups))
    /\ turn' = [turn EXCEPT !.pc = "ask_refresh",
                             !.posted = Append(turn.posted, "question")]
    /\ UNCHANGED << memory, isSending, proposalState, sessionCache,
                    alertShown, others, counters >>

\* refreshMessages, setPendingQText(question || null), return 'asked'; finally
AskRefresh ==
    /\ turn.pc = "ask_refresh"
    /\ messages' = chatLog
    /\ pendingQText' = PendingOf(turn.question)
    /\ turn' = [turn EXCEPT !.pc = "idle", !.result = "asked"]
    /\ isSending' = FALSE
    /\ UNCHANGED << askedCount, proposalAnswers, stores, alertShown, others, counters >>

\* askProposalSummary: its fetch and res.json() settle
SummaryReply(reply) ==
    /\ turn.pc = "summary"
    /\ IF reply.kind = "netfail"
       THEN /\ turn' = [Failed(turn) EXCEPT !.sumReply = reply.kind]
            /\ alertShown' = TRUE
            /\ isSending' = FALSE
       ELSE /\ turn' = [turn EXCEPT !.pc = "sum_insert", !.sumReply = reply.kind,
                                     !.draft = DraftContent(reply)]
            /\ UNCHANGED << alertShown, isSending >>
    /\ UNCHANGED << memory, stores, others, counters >>

\* the insert of the draft message
SumInsert ==
    /\ turn.pc = "sum_insert"
    /\ chatLog' = Append(chatLog, Msg("assistant", PlainContent(turn.draft)))
    /\ turn' = [turn EXCEPT !.pc = "sum_refresh",
                             !.posted = Append(turn.posted, "draft")]
    /\ UNCHANGED << memory, isSending, proposalState, sessionCache,
                    alertShown, others, counters >>

\* refreshMessages, setPendingQText(null), return 'summarized'; finally
SumRefresh ==
    /\ turn.pc = "sum_refresh"
    /\ messages' = chatLog
    /\ pendingQText' = Null
    /\ turn' = [turn EXCEPT !.pc = "idle", !.result = "summarized"]
    /\ isSending' = FALSE
    /\ UNCHANGED << askedCount, proposalAnswers, stores, alertShown, others, counters >>

\* ---------------------------------------------------- clearThreadMessages
\* A reset or a reload since the turn began is noted in the turn.
Disturbed(t) == [t EXCEPT !.disturbed = TRUE]

\* The refresh button is enabled when thread is set and messages is not
\* empty (whether or not a turn is in flight); the user confirms.  The
\* messages of the thread are deleted (by the rpc or by the delete that
\* replaces it) and setMessages([]); the proposal_state row is deleted, the
\* sessionStorage keys removed and the three states reset; WELCOME_TEXT is
\* inserted and the messages are fetched again.
ClearedLogKept == chatLog
ClearedLog == << WelcomeMsg >>
clearThreadMessages ==
    /\ activeThread = "A"
    /\ messages # << >>
    /\ resets < MaxResets
    /\ resets' = resets + 1
    /\ chatLog' = ClearedLog
    /\ messages' = ClearedLog
    /\ proposalState' = NoRow
    /\ sessionCache' = NoRow
    /\ askedCount' = 0
    /\ proposalAnswers' = EmptyAnswers
    /\ pendingQText' = Null
    /\ turn' = Disturbed(turn)
    /\ UNCHANGED << isSending, alertShown, others, turns, reloads, faults >>

\* The same reset with the call noted: where the turn stood when it ran,
\* and the turns and reloads there had been.
ResetNoted ==
    /\ activeThread = "A"
    /\ messages # << >>
    /\ resets < MaxResets
    /\ resets' = resets + 1
    /\ call' = [fn |-> "clearThreadMessages",
                args |-> [pc |-> turn.pc, turnNo |-> turns, reloads |-> reloads],
                result |-> "done"]
    /\ chatLog' = ClearedLog
    /\ messages' = ClearedLog
    /\ proposalState' = NoRow
    /\ sessionCache' = NoRow
    /\ askedCount' = 0
    /\ proposalAnswers' = EmptyAnswers
    /\ pendingQText' = Null
    /\ turn' = Disturbed(turn)
    /\ UNCHANGED << isSending, alertShown, activeThread, turns, reloads, faults >>

\* ------------------------------------------- page load: the thread effect
\* loadProposalState: the row when the read returns one; else the
\* sessionStorage mirror where it has entries; else the state is left alone.
LoadedState(row, cache, count, answers) ==
    IF row.present
    THEN [count |-> row.step_idx, answers |-> row.answers,
          cache |-> Row(row.step_idx, row.answers)]
    ELSE IF cache.present
    THEN [count |-> cache.step_idx, answers |-> cache.answers, cache |-> cache]
    ELSE [count |-> count, answers |-> answers, cache |-> cache]

\* the pendingQText that the effect derives from the messages it closed over
PendingFromLog(msgs) ==
    IF ExpectingAnswer(msgs)
    THEN PendingOf(LastAssistant(msgs).content[1].text)
    ELSE Null

\* The page is (re)loaded between turns, in the same tab or in a new
\* session (empty sessionStorage); the read of proposal_state may fail.  The
\* component mounts with the useState defaults, the first section with a
\* chat (the proposal section, thread A) becomes the active one and the
\* effect runs with the messages of that first render.
Reload(newSession, readOk) ==
    /\ ~InFlight
    /\ reloads < MaxReloads
    /\ reloads' = reloads + 1
    /\ IF readOk THEN UNCHANGED faults
                 ELSE faults < MaxFaults /\ faults' = faults + 1
    /\ LET row == IF readOk THEN proposalState ELSE NoRow
           cache == IF newSession THEN NoRow ELSE sessionCache
           st == LoadedState(row, cache, 0, EmptyAnswers)
       IN  /\ askedCount' = st.count
           /\ proposalAnswers' = st.answers
           /\ sessionCache' = st.cache
    /\ messages' = chatLog
    /\ pendingQText' = PendingFromLog(<< >>)
    /\ isSending' = FALSE
    /\ alertShown' = FALSE
    /\ turn' = Disturbed(turn)
    /\ activeThread' = "A"
    /\ UNCHANGED << chatLog, proposalState, call, turns, resets >>

\* --------------------------------------------- switching the active section
\* Thread "A" is the thread of the proposal section; thread "B" is the
\* thread of another section of the book, with no message, no proposal_state
\* row and no sessionStorage entry.
Threads == {"A", "B"}
ThreadLog(t) == IF t = "A" THEN chatLog ELSE << >>
ThreadRow(t) == IF t = "A" THEN proposalState ELSE NoRow
ThreadCache(t) == IF t = "A" THEN sessionCache ELSE NoRow

\* setActiveSection(section.id) and the thread effect that follows it, with
\* or without a turn in flight: setThread, refreshMessages, loadProposalState
\* onto the state the page holds, and the pendingQText derived from the
\* messages the effect closed over (those shown before the switch).
SwitchSection(to, proposal) ==
    /\ to # activeThread
    /\ to = "A" => proposal
    /\ activeThread' = to
    /\ messages' = ThreadLog(to)
    /\ LET st == LoadedState(ThreadRow(to), ThreadCache(to), askedCount, proposalAnswers)
       IN  /\ askedCount' = st.count
           /\ proposalAnswers' = st.answers
           /\ sessionCache' = IF to = "A" THEN st.cache ELSE sessionCache
    /\ pendingQText' = IF proposal THEN PendingFromLog(messages) ELSE Null
    /\ turn' = Disturbed(turn)
    /\ UNCHANGED << chatLog, proposalState, isSending, alertShown, call, counters >>

\* ------------------------------------- the functions of proposalFlow.ts alone
UNKNOWN_QUESTION == "(shitsumon text fumei)"

\* A value that is valid JSON without a question and an answer field.
OtherJson(s) == [shape |-> "json", question |-> "", text |-> s]

\* The pair extractQAPairs pushes for one value: the answer of a pair is a
\* string, written as the value it is (the parsed answer, or String(v)).
ExtractPair(v) ==
    IF v.shape = "qa" /\ v.question # "" /\ v.text # ""
    THEN [question |-> v.question, answer |-> RawValue(v.text)]
    ELSE [question |-> UNKNOWN_QUESTION, answer |-> v]

\* extractQAPairs(answers): the pairs, by the key they were made from
ExtractQAPairs(answers) ==
    [k \in (DOMAIN answers) \ {SEED_ANSWER_KEY} |-> ExtractPair(answers[k])]

\* AnswerMaps over the seed key, q1 and q2, with values of every kind.
SampleKeys == {SEED_ANSWER_KEY, QKey(1), QKey(2)}
SampleValues ==
    {RawValue("in1"), OtherJson("{}"),
     QAValue("Q1", "in1"), QAValue("", "in1"), QAValue("Q1", "")}
SampleAnswerMaps == UNION {[keys -> SampleValues] : keys \in SUBSET SampleKeys}

\* Questions and follow-up lists of up to MaxFollowups entries.
SampleQuestions == {"Q1", ""}
FollowupTexts == {"f1", "f2", "f3"}
FollowupLists == UNION {[1..n -> FollowupTexts] : n \in 0..MaxFollowups}

CallExtractQAPairs(answers) ==
    /\ call' = [fn |-> "extractQAPairs", args |-> answers,
                result |-> ExtractQAPairs(answers)]
    /\ UNCHANGED << memory, stores, isSending, turn, alertShown, activeThread, counters >>

CallBuildQuestionMessage(main, followups) ==
    /\ call' = [fn |-> "buildQuestionMessage", args |-> << main, followups >>,
                result |-> BuildQuestionMessage(main, followups)]
    /\ UNCHANGED << memory, stores, isSending, turn, alertShown, activeThread, counters >>

\* The parsing part of askPlannerNext on a reply text: the fence stripped,
\* JSON.parse, and the decision, question and follow-ups read from it.
CallParseReply(raw) ==
    /\ call' = [fn |-> "askPlannerNext", args |-> raw,
                result |-> ParseDecision(JsonStr(raw))]
    /\ UNCHANGED << memory, stores, isSending, turn, alertShown, activeThread, counters >>

\* Ask replies whose followups array holds values of other types.
AskMixed == Obj("ask", "Q1", << "<0>", "<7>", "f1" >>)
AskFalsy == Obj("ask", "Q1", << "", "<false>", Null, "f1", "<0>" >>)
AskObjects == Obj("ask", "Q1", << "f1", "<{}>", "<true>" >>)
ParseTexts ==
    PlanTexts \cup {ReplyText("none", b) : b \in {AskMixed, AskFalsy, AskObjects}}

PureNext ==
    \/ \E answers \in SampleAnswerMaps : CallExtractQAPairs(answers)
    \/ \E raw \in ParseTexts : CallParseReply(raw)
    \/ \E main \in SampleQuestions, followups \in FollowupLists :
           CallBuildQuestionMessage(main, followups)

\* The functions of proposalFlow.ts applied to sample arguments.
SpecPure == Init /\ [][PureNext]_vars

\* ----------------------------------------------------------- specification
Next ==
    \/ \E inp \in Inputs \cup BlankInputs : Submit(inp)
    \/ InsertUser
    \/ RefreshUser
    \/ SaveState(TRUE)
    \/ SaveState(FALSE)
    \/ \E reply \in PlanReplies : PlanReply(reply)
    \/ AskInsert
    \/ AskRefresh
    \/ \E reply \in SummaryReplies : SummaryReply(reply)
    \/ SumInsert
    \/ SumRefresh
    \/ clearThreadMessages
    \/ \E newSession \in BOOLEAN, readOk \in BOOLEAN : Reload(newSession, readOk)

Spec == Init /\ [][Next]_vars

\* The same page followed for two more turns than Spec follows it.
LongTurns == MaxTurns + 2
LongNext == Next \/ \E inp \in Inputs : SubmitWithin(inp, LongTurns)
SpecLong == Init /\ [][LongNext]_vars

\* The page with every call of handleSendMessage noted.
InputNext ==
    \/ \E inp \in Inputs \cup BlankInputs : HandleSend(inp)
    \/ InsertUser
    \/ RefreshUser
    \/ SaveState(TRUE)
    \/ \E reply \in PlanReplies : PlanReply(reply)
    \/ AskInsert
    \/ AskRefresh
    \/ \E reply \in SummaryReplies : SummaryReply(reply)
    \/ SumInsert
    \/ SumRefresh
    \/ clearThreadMessages

SpecInput == Init /\ [][InputNext]_vars

\* The page with the failed writes of saveProposalState noted, every read
\* of proposal_state succeeding.
SaveNext ==
    \/ \E inp \in Inputs : Submit(inp)
    \/ InsertUser
    \/ RefreshUser
    \/ SaveStateNoted(TRUE)
    \/ SaveStateNoted(FALSE)
    \/ \E reply \in PlanReplies : PlanReply(reply)
    \/ AskInsert
    \/ AskRefresh
    \/ \E reply \in SummaryReplies : SummaryReply(reply)
    \/ SumInsert
    \/ SumRefresh
    \/ clearThreadMessages
    \/ \E newSession \in BOOLEAN : Reload(newSession, TRUE)

SpecSave == Init /\ [][SaveNext]_vars

\* The page with the resets noted.
ResetNext ==
    \/ \E inp \in Inputs : Submit(inp)
    \/ InsertUser
    \/ RefreshUser
    \/ SaveState(TRUE)
    \/ SaveState(FALSE)
    \/ \E reply \in PlanReplies : PlanReply(reply)
    \/ AskInsert
    \/ AskRefresh
    \/ \E reply \in SummaryReplies : SummaryReply(reply)
    \/ SumInsert
    \/ SumRefresh
    \/ ResetNoted
    \/ \E newSession \in BOOLEAN, readOk \in BOOLEAN : Reload(newSession, readOk)

SpecReset == Init /\ [][ResetNext]_vars

\* The insert of the user message fails (lines 420-423 stand before the try
\* of handleSendMessage): the client resolves with an error, which the
\* handler does not read, and the turn goes on without the message in the
\* log ("error"); or the awaited call rejects and the handler ends there,
\* before its try and so without its finally ("rejects").
InsertOutcomes == {"error", "rejects"}
InsertUserFails(outcome) ==
    /\ turn.pc = "insert_user"
    /\ faults < MaxFaults
    /\ faults' = faults + 1
    /\ turn' = IF outcome = "error"
               THEN [turn EXCEPT !.pc = "refresh_user"]
               ELSE [turn EXCEPT !.pc = "idle", !.result = "aborted"]
    /\ UNCHANGED << memory, stores, isSending, alertShown, others,
                    turns, resets, reloads >>

\* The steps of the turn in flight: every awaited call settles.
TurnStep ==
    \/ InsertUser
    \/ \E outcome \in InsertOutcomes : InsertUserFails(outcome)
    \/ RefreshUser
    \/ SaveState(TRUE)
    \/ \E reply \in PlanReplies : PlanReply(reply)
    \/ AskInsert
    \/ AskRefresh
    \/ \E reply \in SummaryReplies : SummaryReply(reply)
    \/ SumInsert
    \/ SumRefresh

LiveNext ==
    \/ Next
    \/ \E outcome \in InsertOutcomes : InsertUserFails(outcome)

\* The page with failing inserts, every awaited call of a turn settling.
SpecLive == Init /\ [][LiveNext]_vars /\ WF_vars(TurnStep)

\* The page with the user moving between the two sections.
SwitchNext ==
    \/ Next
    \/ \E to \in Threads, proposal \in BOOLEAN : SwitchSection(to, proposal)

SpecSwitch == Init /\ [][SwitchNext]_vars

\* ================================================================== claims
\* The askPlannerNext call of the turn got a reply to its planning request.
PlannerReplied == turn.planReply \in {"ok", "error"}
\* The askPlannerNext call of the turn was made with count >= MAX_QA_ROUNDS.
AtCap == turn.planCount >= MAX_QA_ROUNDS
Posted(kind) == \E i \in 1..Len(turn.posted) : turn.posted[i] = kind
\* The turn has ended and neither a reset nor a reload has run since it began.
EndedUndisturbed == turn.pc = "idle" /\ turn.result # "none" /\ ~turn.disturbed

\* C1 (as stated): whenever askPlannerNext runs with count >= MAX_QA_ROUNDS
\* and the planning request is answered, askProposalSummary is called, no
\* question message is posted, and PendingQuestion is null once the
\* invocation is over.
C1_RoundCapPendingAlwaysNull ==
    (AtCap /\ PlannerReplied) =>
        /\ turn.reqs = << "plan", "summary" >>
        /\ ~Posted("question")
        /\ (turn.pc = "idle" => pendingQText = Null)

\* C1 (amended): whenever askPlannerNext runs with count >= MAX_QA_ROUNDS and
\* the planning request is answered (ask, summary, non-JSON, empty, error
\* body), the summary request is issued, the invocation never reaches the
\* posting of a question, and PendingQuestion is null once the invocation
\* has returned; an invocation whose summary request fails in transport
\* throws and leaves PendingQuestion as it was.
C1_RoundCap ==
    (AtCap /\ PlannerReplied) =>
        /\ turn.reqs = << "plan", "summary" >>
        /\ ~Posted("question")
        /\ turn.pc \notin {"ask_insert", "ask_refresh"}
        /\ turn.result # "asked"
        /\ (turn.result = "summarized" => pendingQText = Null)
        /\ (turn.result = "failed" /\ ~turn.disturbed => pendingQText = turn.pending)

\* C1 witness: an answer submitted at askedCount = 11, the planner replied
\* with a well-formed ask, and the turn ended summarized.
C1_Witness ==
    /\ turn.count = MAX_QA_ROUNDS - 1 /\ turn.branch = "answer"
    /\ turn.planReply = "ok" /\ turn.parsed = "yes" /\ turn.decision = "ask"
    /\ turn.question = "Q1"
    /\ turn.result = "summarized" /\ Posted("draft")
    /\ pendingQText = Null

\* C2: below the cap, a planning reply that JSON.parse rejects resolves to
\* ask; the question posted is exactly the fallback question, with no
\* follow-up line; the turn does not take the error path.
C2_Fallback ==
    (turn.parsed = "no" /\ ~AtCap) =>
        /\ turn.decision = "ask"
        /\ turn.question = FALLBACK_QUESTION
        /\ turn.followups = << >>
        /\ turn.reqs = << "plan" >>
        /\ turn.result # "failed"
        /\ (turn.pc = "idle" /\ ~turn.disturbed =>
               /\ turn.result = "asked"
               /\ ~alertShown
               /\ chatLog[Len(chatLog)] =
                      Msg("assistant", << Line(QMark, FALLBACK_QUESTION) >>)
               /\ pendingQText = FALLBACK_QUESTION)

\* C2 witness: a 200 reply whose text is not JSON, answered by the fallback
\* question.
C2_Witness ==
    /\ turn.planReply = "ok" /\ turn.parsed = "no" /\ ~AtCap
    /\ EndedUndisturbed /\ turn.result = "asked"
    /\ chatLog[Len(chatLog)] = Msg("assistant", << Line(QMark, FALLBACK_QUESTION) >>)

\* The last assistant message of the thread is a draft posted by a summary.
IsDraft(m) ==
    m.role = "assistant" /\ m.content[1].mark = "" /\ m.content[1].text \in DraftTexts
Summarized == HasAssistant(chatLog) /\ IsDraft(LastAssistant(chatLog))

\* C3: once the draft has been posted, no step other than a reset (or a
\* reload of the page) changes ProgressCounter, AnswerMap or the stored
\* state, and no generation request is issued.
C3_SummarizedIsTerminal ==
    [][ (Summarized /\ resets' = resets /\ reloads' = reloads) =>
            /\ askedCount' = askedCount
            /\ proposalAnswers' = proposalAnswers
            /\ proposalState' = proposalState
            /\ sessionCache' = sessionCache
            /\ (turn'.reqs = turn.reqs \/ turn'.reqs = << >>) ]_vars

\* C4: a turn is in flight exactly while isSending holds, and no step taken
\* while a turn is in flight begins another turn: a submit arriving then is
\* rejected, so the turn in flight stays the only one, with its own user
\* message and its own place in the log.
C4_SingleInFlight ==
    /\ [](InFlight <=> isSending)
    /\ [][InFlight => (turns' = turns /\ turn'.content = turn.content
                                      /\ turn'.logAtStart = turn.logAtStart)]_vars

\* C4 witness: a turn awaits its planning reply and a submit with a
\* non-empty input arrives; the guard rejects it.
C4_Witness ==
    /\ turn.pc = "plan" /\ isSending
    /\ \E inp \in Inputs : ~Accepts(Trim(inp), isSending)

\* The store holds what the turn handed to saveProposalState: the
\* sessionStorage mirror, and the proposal_state row unless its write
\* returned an error.
StoreHolds(count, answers) ==
    /\ sessionCache = Row(count, answers)
    /\ (turn.saved = "ok" => proposalState = Row(count, answers))

\* C5: when an answer turn resolves to summary and the summary call fails
\* (the fetch rejects, or /api/chat answers 500), the answer stays stored, no
\* assistant message is appended in the turn, and the turn ends through the
\* error path with the alert.
C5_SummaryFailure ==
    (turn.branch = "answer" /\ turn.sumReply \in {"netfail", "error"}
                            /\ ~turn.disturbed) =>
        /\ StoreHolds(turn.count + 1, turn.nextAnswers)
        /\ turn.posted = << >>
        /\ turn.pc = "idle" /\ turn.result = "failed" /\ alertShown

\* C6: a planning request that fails (the fetch rejects, or /api/chat answers
\* 500 with an error and no content) ends the turn through the error path
\* with the alert, posts nothing, and is not handled as a parse error.
C6_PlanningFailureSurfaced ==
    (turn.planReply \in {"netfail", "error"} /\ ~turn.disturbed) =>
        /\ turn.parsed = "none"
        /\ turn.posted = << >>
        /\ turn.pc = "idle" /\ turn.result = "failed" /\ alertShown

\* C7: in an answer turn the planning request is issued only after
\* saveProposalState has been called with the incremented counter and the
\* extended AnswerMap and has returned; from then on, whatever generation
\* call fails, the store holds them (until a reset or reload).
C7_SavedBeforePlanning ==
    (turn.branch = "answer" /\ turn.reqs # << >>) =>
        /\ turn.saved # "no"
        /\ turn.nextCount = turn.count + 1
        /\ QKey(turn.count + 1) \in DOMAIN turn.nextAnswers
        /\ turn.nextAnswers[QKey(turn.count + 1)].text = turn.content
        /\ (~turn.disturbed => StoreHolds(turn.count + 1, turn.nextAnswers))

\* C7 witness: an answer turn whose planning request failed, with the
\* answer in the durable row.
C7_Witness ==
    /\ turn.branch = "answer" /\ turn.result = "failed" /\ ~turn.disturbed
    /\ turn.planReply = "netfail"
    /\ proposalState.present
    /\ proposalState.step_idx = turn.count + 1
    /\ proposalState.answers[QKey(turn.count + 1)].text = turn.content

Branched == turn.branch # "none"

C10_AnswerTurn ==
    (Branched /\ HasSeed(turn.answers)) =>
        /\ turn.branch = "answer"
        /\ turn.nextCount = turn.count + 1
        /\ turn.nextAnswers =
               WithEntry(turn.answers, QKey(turn.count + 1),
                         QAValue(IF turn.pending = Null THEN QUESTION_PLACEHOLDER
                                                        ELSE turn.pending,
                                 turn.content))
        /\ (turn.pc = "save" /\ ~turn.disturbed =>
               askedCount = turn.count + 1 /\ proposalAnswers = turn.nextAnswers)
        /\ (turn.reqs # << >> =>
               /\ turn.planCount = turn.count + 1
               /\ turn.saved # "no"
               /\ (~turn.disturbed => StoreHolds(turn.count + 1, turn.nextAnswers)))

\* C10 witness: an answer given while no question was pending is stored
\* under the next key with the placeholder as its question.
C10_Witness ==
    /\ turn.branch = "answer" /\ HasSeed(turn.answers) /\ turn.pending = Null
    /\ turn.pc = "plan" /\ ~turn.disturbed
    /\ proposalState.present
    /\ proposalState.answers[QKey(turn.count + 1)] =
           QAValue(QUESTION_PLACEHOLDER, turn.content)

\* C11: no step other than a reset lowers ProgressCounter: not the counter
\* in memory, not the one in the proposal_state row, not the one in the
\* sessionStorage mirror.
C11_CounterNeverDecreases ==
    [][ resets' = resets =>
            /\ askedCount' >= askedCount
            /\ proposalState'.step_idx >= proposalState.step_idx
            /\ sessionCache'.step_idx >= sessionCache.step_idx ]_vars

\* C12: every answer turn adds to the AnswerMap it started from exactly one
\* key, one that was not there, and keeps every entry it found (the seed
\* included); a seed turn keeps every entry too; and no step of a turn
\* removes or changes an entry of the AnswerMap in memory.
C12_AnswerMapGrowsByOne ==
    /\ [](Branched =>
            /\ \A k \in DOMAIN turn.answers :
                   k \in DOMAIN turn.nextAnswers /\ turn.nextAnswers[k] = turn.answers[k]
            /\ Cardinality(DOMAIN turn.nextAnswers) = Cardinality(DOMAIN turn.answers) + 1
            /\ (turn.branch = "answer" =>
                   /\ QKey(turn.count + 1) \notin DOMAIN turn.answers
                   /\ QKey(turn.count + 1) \in DOMAIN turn.nextAnswers))
    /\ [][ (resets' = resets /\ reloads' = reloads) =>
               \A k \in DOMAIN proposalAnswers :
                   k \in DOMAIN proposalAnswers' /\ proposalAnswers'[k] = proposalAnswers[k] ]_vars

\* C13: a reset that runs with no turn in flight leaves no proposal_state
\* row and no sessionStorage entry, ProgressCounter 0, an empty AnswerMap and
\* no PendingQuestion, and the thread awaits its seed: whatever input is
\* accepted next takes the seed branch.
C13_ResetClears ==
    [][ (resets' # resets /\ ~InFlight) =>
            /\ proposalState' = NoRow
            /\ sessionCache' = NoRow
            /\ askedCount' = 0
            /\ proposalAnswers' = EmptyAnswers
            /\ pendingQText' = Null
            /\ ~InFlight'
            /\ IsSeedTurn(ExpectingAnswer(messages'), proposalAnswers') ]_vars

\* C13 witness: after a first turn the thread was reset, and the input
\* accepted next was stored as the seed of the emptied thread.
C13_Witness ==
    /\ resets = 1 /\ turns = 2
    /\ EndedUndisturbed /\ turn.branch = "seed" /\ turn.result = "asked"
    /\ turn.logAtStart = 1 /\ turn.count = 0 /\ turn.answers = EmptyAnswers
    /\ proposalState = Row(0, SeedAnswers(EmptyAnswers, turn.content))

\* C15: whenever the page is loaded and the read of proposal_state succeeds
\* (a row, or the answer that there is none), the counter and the AnswerMap
\* loaded are the durable ones (0 and the empty map when there is no row),
\* whatever the sessionStorage mirror holds.
C15_DurableReadWins ==
    [][ (reloads' # reloads /\ faults' = faults) =>
            /\ askedCount' = proposalState.step_idx
            /\ proposalAnswers' = proposalState.answers ]_vars

\* C14: whenever a thread with no persisted proposal state (no row, no
\* sessionStorage entry) becomes the active one, ProgressCounter is 0 and
\* AnswerMap is empty after its load, whatever the page held before.
C14_LoadOfEmptyThread ==
    [][ (activeThread' # activeThread
           /\ ~ThreadRow(activeThread').present
           /\ ~ThreadCache(activeThread').present) =>
            /\ askedCount' = 0
            /\ proposalAnswers' = EmptyAnswers ]_vars

\* C16: while thread B is the active one, no step of a turn begun on thread
\* A changes the message list, PendingQuestion, ProgressCounter or AnswerMap
\* of the page.
C16_OtherThreadUntouched ==
    [][ (activeThread = "B" /\ activeThread' = "B") =>
            /\ messages' = messages
            /\ pendingQText' = pendingQText
            /\ askedCount' = askedCount
            /\ proposalAnswers' = proposalAnswers ]_vars

\* C17: whenever isSending is set, it is cleared again later: after a turn
\* that completes, after one whose generation call fails, and after one
\* whose insert of the user message fails.
C17_GuardReleased == isSending ~> ~isSending

\* C20: below the cap, a planning reply that parses as JSON and carries no
\* decision, or one that is neither ask nor summary, resolves to ask with
\* the fallback question: the question posted is the fallback question and
\* never the empty one.
C20_NoDecisionFallsBack ==
    (turn.parsed = "yes" /\ turn.objDecision \notin {"ask", "summary"} /\ ~AtCap) =>
        /\ turn.decision = "ask"
        /\ turn.question = FALLBACK_QUESTION
        /\ (EndedUndisturbed =>
               chatLog[Len(chatLog)] = QuestionMsg(FALLBACK_QUESTION, << >>))

\* C18: for every AnswerMap, extractQAPairs yields no pair for the seed key
\* and one pair for every other key: the question and the answer of the
\* value when the value is JSON with both fields (empty strings included),
\* else the unknown-question placeholder with the value as the answer.
C18_ExtractionLaw ==
    (call.fn = "extractQAPairs") =>
        /\ DOMAIN call.result = (DOMAIN call.args) \ {SEED_ANSWER_KEY}
        /\ \A k \in DOMAIN call.result :
               call.result[k] =
                   IF call.args[k].shape = "qa"
                   THEN [question |-> call.args[k].question,
                         answer |-> RawValue(call.args[k].text)]
                   ELSE [question |-> UNKNOWN_QUESTION, answer |-> call.args[k]]

\* C19: for every question and every follow-up list, the message built has
\* the question line first, then at most two bullet lines, which are the
\* first two entries of the list in order; later entries do not appear.
C19_FollowupsTruncated ==
    (call.fn = "buildQuestionMessage") =>
        LET main == call.args[1]
            followups == call.args[2]
            out == call.result
        IN  /\ out[1] = Line(QMark, main)
            /\ Len(out) = 1 + Min(2, Len(followups))
            /\ \A i \in 2..Len(out) : out[i] = Line(Bullet, followups[i - 1])

\* C19 witness: a list of three follow-ups gives a message of three lines.
C19_Witness ==
    /\ call.fn = "buildQuestionMessage"
    /\ Len(call.args[2]) = 3
    /\ call.result = << Line(QMark, "Q1"), Line(Bullet, call.args[2][1]),
                        Line(Bullet, call.args[2][2]) >>

\* A reply body that is a decision object of the planner's schema.
ValidDecision(body) == body.json /\ body.decision \in {"ask", "summary"}

\* C21: for every valid decision object, the reply that wraps it in a code
\* fence, tagged json or untagged, resolves to the same decision, question
\* and follow-ups as the reply that is the object verbatim.
C21_FenceEquivalence ==
    (call.fn = "askPlannerNext" /\ ValidDecision(call.args.body)) =>
        call.result = ParseDecision(JsonStr(ReplyText("none", call.args.body)))

\* The log ends with the question message the turn built from its question
\* and its follow-ups.
EndsWithQuestionOfTurn ==
    /\ chatLog[Len(chatLog)].role = "assistant"
    /\ LET content == chatLog[Len(chatLog)].content
       IN  /\ content[1] = Line(QMark, turn.question)
           /\ Len(content) = 1 + Len(turn.followups)
           /\ \A i \in 1..Len(turn.followups) :
                  content[i + 1] = Line(Bullet, turn.followups[i])

C23_PendingRederivedOnLoad ==
    [][ reloads' # reloads =>
            IF ExpectingAnswer(chatLog')
            THEN pendingQText' = LastAssistant(chatLog').content[1].text
            ELSE pendingQText' = Null ]_vars

\* C24: for every ask reply, each follow-up line of the question message is
\* an entry of the reply's followups array that is a non-empty string; a
\* falsy entry or an entry that is not a string gives no line.
C24_FollowupsFiltered ==
    (call.fn = "askPlannerNext" /\ call.args.body.json
                                /\ call.args.body.decision = "ask") =>
        LET given == call.args.body.followups
            out == BuildQuestionMessage(call.result.question, call.result.followups)
        IN  \A i \in 2..Len(out) :
                /\ out[i].mark = Bullet
                /\ out[i].text # ""
                /\ \E j \in 1..Len(given) :
                       given[j] = out[i].text /\ given[j] \notin NonStrings

\* C25: a turn issues at most two generation requests, the planning request
\* first; the summary request is issued only after the planning request
\* has been answered and the decision has resolved to summary; a turn that
\* resolves to ask issues the planning request alone.
C25_RequestsInSequence ==
    /\ turn.reqs \in {<< >>, << "plan" >>, << "plan", "summary" >>}
    /\ (turn.reqs = << "plan", "summary" >> =>
           /\ PlannerReplied
           /\ ResolvesToSummary(turn.decision, turn.planCount))
    /\ (turn.pc \in {"ask_insert", "ask_refresh"} \/ turn.result = "asked" =>
           turn.reqs = << "plan" >>)
    /\ (turn.pc \in {"summary", "sum_insert", "sum_refresh"}
           \/ turn.result = "summarized" => turn.reqs = << "plan", "summary" >>)

\* C25 witness: below the cap the planner replied with decision summary,
\* the summary request followed and the draft was posted.
C25_Witness ==
    /\ turn.reqs = << "plan", "summary" >> /\ ~AtCap
    /\ turn.objDecision = "summary" /\ turn.result = "summarized"
    /\ Posted("draft")

\* handleSendMessage has just been called with an empty or blank input.
BlankSubmit ==
    /\ call'.fn = "handleSendMessage"
    /\ Trim(call'.args.input) = ""
    /\ (call.fn = "handleSendMessage" => call'.args # call.args)

\* C26: a submit whose input is empty or only whitespace, with or without a
\* turn in flight, leaves the message log, ProgressCounter, AnswerMap,
\* PendingQuestion, the proposal_state row, the sessionStorage mirror and
\* isSending unchanged, begins no turn and issues no generation request.
C26_BlankRejected ==
    [][ BlankSubmit =>
            /\ call'.result = "rejected"
            /\ chatLog' = chatLog /\ messages' = messages
            /\ askedCount' = askedCount /\ proposalAnswers' = proposalAnswers
            /\ pendingQText' = pendingQText
            /\ proposalState' = proposalState /\ sessionCache' = sessionCache
            /\ isSending' = isSending
            /\ turn' = turn /\ turns' = turns ]_vars

\* C26 witness: a whitespace-only input was submitted while no turn was in
\* flight, after a question had been asked, and was rejected.
C26_Witness ==
    /\ call.fn = "handleSendMessage" /\ call.args.input = " "
    /\ ~call.args.isSending /\ call.result = "rejected"
    /\ ~isSending /\ turn.result = "asked" /\ pendingQText = "Q1"

\* The durable write of an earlier answer turn failed, and this step is the
\* durable write of a later answer turn, which succeeds.
WriteAfterFailedWrite ==
    /\ call.fn = "saveProposalState" /\ call.args.branch = "answer"
    /\ call.args.turnNo < turns
    /\ turn.pc = "save" /\ turn.branch = "answer"
    /\ turn'.pc = "plan" /\ turn'.saved = "ok"
\* The durable row is the state in memory and holds the answer of the
\* failed write.
Reconciled ==
    /\ proposalState' = Row(askedCount', proposalAnswers')
    /\ QKey(call.args.count) \in DOMAIN proposalState'.answers
    /\ proposalState'.answers[QKey(call.args.count)] =
           call.args.answers[QKey(call.args.count)]
\* The planner of an answer turn whose durable write failed is called with
\* the incremented counter.
ContinuesAfterFailedWrite ==
    (turn.branch = "answer" /\ turn.saved = "failed") =>
        /\ turn.reqs # << >>
        /\ turn.planCount = turn.count + 1
        /\ QKey(turn.planCount) \in DOMAIN turn.nextAnswers
        /\ (~turn.disturbed =>
               askedCount = turn.planCount /\ proposalAnswers = turn.nextAnswers)

Agrees(row) ==
    row.present =>
        (DOMAIN row.answers) \ {SEED_ANSWER_KEY} = {QKey(i) : i \in 1..row.step_idx}

\* C28: in every reachable state the non-seed keys of the persisted
\* AnswerMap are exactly q1 .. q<n>, n being the persisted ProgressCounter:
\* in the proposal_state row and in the sessionStorage mirror.
C28_CounterAgreesWithAnswers == Agrees(proposalState) /\ Agrees(sessionCache)

\* C29: in every reachable state ProgressCounter is at most MAX_QA_ROUNDS,
\* in memory and in the stored state, and no more than MAX_QA_ROUNDS
\* question/answer records are stored.
C29_CounterWithinCap ==
    /\ askedCount <= MAX_QA_ROUNDS
    /\ proposalState.step_idx <= MAX_QA_ROUNDS
    /\ sessionCache.step_idx <= MAX_QA_ROUNDS
    /\ Cardinality((DOMAIN proposalState.answers) \ {SEED_ANSWER_KEY}) <= MAX_QA_ROUNDS

\* The last reset ran while the turn awaited the generation service, and
\* that turn has ended since, with no reload and no further turn.
ResetRacedGeneration ==
    /\ call.fn = "clearThreadMessages"
    /\ call.args.pc \in {"plan", "summary"}
    /\ call.args.turnNo = turns /\ call.args.reloads = reloads
    /\ turn.pc = "idle"

\* C30: when a reset has run while a turn awaited the generation service
\* and both are over, the log holds no question and no draft of that turn,
\* PendingQuestion is null, no state is stored, and the next input is taken
\* as the seed.
C30_ResetWinsOverTurn ==
    ResetRacedGeneration =>
        /\ chatLog = ClearedLog
        /\ pendingQText = Null
        /\ proposalState = NoRow /\ sessionCache = NoRow
        /\ askedCount = 0 /\ proposalAnswers = EmptyAnswers
        /\ IsSeedTurn(ExpectingAnswer(messages), proposalAnswers)

====
